---- MODULE Spec2Model ----
(***************************************************************************)
(* Model of the synthetic stream emission engine (RxJSSocketServer,        *)
(* rxjs-socket-server.js) and of the HTTP routes that drive it             *)
(* (rxjs-demo-routes.js).  Time is in milliseconds; the clock advances in  *)
(* steps of 100 ms.  Every handler (socket event, HTTP route, timer        *)
(* callback) is one atomic action, as on the single-threaded event loop.   *)
(***************************************************************************)
EXTENDS Integers, Sequences, FiniteSets, TLC

\* ---------------------------------------------------------------- bounds
\* The clock runs over 0, 100, ..., 100 * MaxSteps.
MaxSteps == 1
\* Total number of startStream calls (activations) in a behaviour.
MaxActs == 2

\* ------------------------------------------------------ program constants
DefaultInterval == 3000
DefaultDuration == 120000
DefaultBurstSize == 3
DefaultBurstInterval == 10000
BurstStagger == 100
BookIdBase == 1000
IssueIdBase == 5000

\* server.js creates the RxJSSocketServer and hands it to the routes before
\* the server listens, so the routes always see an instance.
socketServerInstance == TRUE

\* ------------------------------------------------------------- Map helpers
EmptyMap == [x \in {} |-> x]
MapDelete(m, k) == [x \in (DOMAIN m) \ {k} |-> m[x]]
MapSet(m, k, v) == [x \in (DOMAIN m) \cup {k} |-> IF x = k THEN v ELSE m[x]]

\* Removal of the i-th element of a sequence (a timer that has fired).
RemoveAt(s, i) == [j \in 1..(Len(s) - 1) |-> IF j < i THEN s[j] ELSE s[j + 1]]

\* ----------------------------------------------------------------- inputs
Names == {"books", "issues"}

\* Configs as the socket clients send them: a record holding only the
\* supplied fields.  A zero-duration normal-mode stream under the default
\* name, and a burst-mode stream.
Inputs ==
  { [interval |-> 100, duration |-> 0],
    [streamName |-> "books", duration |-> 100, burstMode |-> TRUE,
     burstSize |-> 2, burstInterval |-> 100] }

\* Bodies of POST /streams/start: one without streamName, and a normal-mode
\* stream with error injection, duplicate injection and jitter (a jitter
\* below the clock's step: the delayed broadcast runs as a task of its own,
\* within the same 100 ms).
Bodies ==
  { [interval |-> 100, duration |-> 0],
    [streamName |-> "issues", interval |-> 100, duration |-> 200,
     errorRate |-> 50, duplicateRate |-> 50, delayVariation |-> 100] }

\* Values of Math.random() * 100, one below and one above the rate 50.  The
\* guard rate > 0 short-circuits the call, so a rate of 0 draws nothing.
Draws(rate) == IF rate > 0 THEN {10, 60} ELSE {0}
\* Values of Math.random() * delayVariation on the clock's grid.
Delays(delayVariation) == {d \in {0, 100, 200} : d < delayVariation} \cup {0}

\* ------------------------------------------------------------------ state
VARIABLES
  now,            \* Date.now()
  activeStreams,  \* Map streamName -> {intervalId, config, startTime, act}
  streamConfigs,  \* Map streamName -> config
  intervals,      \* live setInterval timers: intervalId -> [act, period, next]
  timeouts,       \* pending setTimeout tasks, in scheduling order
  acts,           \* closures of the startStream calls, by activation number:
                  \* config, startTime, emissionCount, lastEmittedData, and
                  \* the history of the activation (status, replaced, completes)
  emitted,        \* events sent by the last handler, in order
  tick,           \* the emitData call of the last handler, if any
  op,             \* the last handler
  response,       \* the HTTP response of the last handler, if any
  sent            \* by activation number, the payloads io.emit has broadcast
                  \* on the stream's channel so far, in order

vars == <<now, activeStreams, streamConfigs, intervals, timeouts, acts,
          emitted, tick, op, response, sent>>

\* Destructuring with defaults in startStream.
Field(config, f, default) == IF f \in DOMAIN config THEN config[f] ELSE default

Cfg(config) ==
  [ streamName     |-> Field(config, "streamName", "books"),
    interval       |-> Field(config, "interval", DefaultInterval),
    duration       |-> Field(config, "duration", DefaultDuration),
    errorRate      |-> Field(config, "errorRate", 0),
    duplicateRate  |-> Field(config, "duplicateRate", 0),
    delayVariation |-> Field(config, "delayVariation", 0),
    burstMode      |-> Field(config, "burstMode", FALSE),
    burstSize      |-> Field(config, "burstSize", DefaultBurstSize),
    burstInterval  |-> Field(config, "burstInterval", DefaultBurstInterval) ]

\* ----------------------------------------------------------------- events
StoppedEv(streamName) ==
  [type |-> "stream-stopped", to |-> "all", streamName |-> streamName]
CompleteEv(streamName, a, totalEmissions, elapsed) ==
  [type |-> "complete", to |-> "all", streamName |-> streamName, act |-> a,
   totalEmissions |-> totalEmissions, duration |-> elapsed]
ErrorEv(streamName, a) ==
  [type |-> "error", to |-> "all", streamName |-> streamName, act |-> a]
PayloadEv(streamName, a, data) ==
  [type |-> "payload", to |-> "all", streamName |-> streamName, act |-> a,
   data |-> data]
StartedEv(streamName, config) ==
  [type |-> "stream-started", to |-> "socket", streamName |-> streamName,
   config |-> config]
ConfigsEv(configs) ==
  [type |-> "stream-configs", to |-> "socket", configs |-> configs]

\* -------------------------------------------------------------- generators
generateBookData(index) == [kind |-> "book", id |-> BookIdBase + index]
generateIssueData(index) == [kind |-> "issue", id |-> IssueIdBase + index]

\* ------------------------------------------------- the server's operations
\* A server state S is the record of the variables a handler can change.
Server ==
  [activeStreams |-> activeStreams, streamConfigs |-> streamConfigs,
   intervals |-> intervals, timeouts |-> timeouts, acts |-> acts,
   emitted |-> <<>>, tick |-> <<>>]

getStreamConfigs(S) == [name \in DOMAIN S.streamConfigs |-> S.streamConfigs[name]]

\* stopStream that clears every stream with the one it was asked to stop.
stopStreamEvery(S, streamName) ==
  IF streamName \in DOMAIN S.activeStreams
  THEN LET stream == S.activeStreams[streamName] IN
       [S EXCEPT !.intervals = EmptyMap,
                 !.activeStreams = EmptyMap,
                 !.streamConfigs = EmptyMap,
                 !.emitted = Append(@, StoppedEv(streamName)),
                 !.acts[stream.act].status =
                     IF @ = "RUNNING" THEN "STOPPED" ELSE @]
  ELSE S

\* stopStream that leaves the interval timer running.
stopStreamKeepTimer(S, streamName) ==
  IF streamName \in DOMAIN S.activeStreams
  THEN LET stream == S.activeStreams[streamName] IN
       [S EXCEPT !.activeStreams = MapDelete(@, streamName),
                 !.streamConfigs = MapDelete(@, streamName),
                 !.emitted = Append(@, StoppedEv(streamName)),
                 !.acts[stream.act].status =
                     IF @ = "RUNNING" THEN "STOPPED" ELSE @]
  ELSE S

\* stopStream that notifies without looking the stream up.
stopStreamAlwaysNotify(S, streamName) ==
  IF streamName \in DOMAIN S.activeStreams
  THEN LET stream == S.activeStreams[streamName] IN
       [S EXCEPT !.intervals = MapDelete(@, stream.intervalId),
                 !.activeStreams = MapDelete(@, streamName),
                 !.streamConfigs = MapDelete(@, streamName),
                 !.emitted = Append(@, StoppedEv(streamName)),
                 !.acts[stream.act].status =
                     IF @ = "RUNNING" THEN "STOPPED" ELSE @]
  ELSE [S EXCEPT !.emitted = Append(@, StoppedEv(streamName))]

\* stopStream that forgets streamConfigs.delete.
stopStreamKeepConfig(S, streamName) ==
  IF streamName \in DOMAIN S.activeStreams
  THEN LET stream == S.activeStreams[streamName] IN
       [S EXCEPT !.intervals = MapDelete(@, stream.intervalId),
                 !.activeStreams = MapDelete(@, streamName),
                 !.emitted = Append(@, StoppedEv(streamName)),
                 !.acts[stream.act].status =
                     IF @ = "RUNNING" THEN "STOPPED" ELSE @]
  ELSE S

\* stopStream; the activation whose registry entry is removed while it is
\* RUNNING becomes STOPPED.
stopStream(S, streamName) ==
  IF streamName \in DOMAIN S.activeStreams
  THEN LET stream == S.activeStreams[streamName] IN
       [S EXCEPT !.intervals = MapDelete(@, stream.intervalId),
                 !.activeStreams = MapDelete(@, streamName),
                 !.streamConfigs = MapDelete(@, streamName),
                 !.emitted = Append(@, StoppedEv(streamName)),
                 !.acts[stream.act].status =
                     IF @ = "RUNNING" THEN "STOPPED" ELSE @]
  ELSE S

\* The duration check of emitData.
durationExceededNever(elapsed, duration) == FALSE
durationExceededEarly(elapsed, duration) == elapsed + 100 >= duration
durationExceeded(elapsed, duration) == elapsed >= duration

\* emitPayload that counts a fresh payload when it is generated.
emitPayloadCountEarly(S, a, t, r2, delay) ==
  LET c == S.acts[a]
      cfg == Cfg(c.config)
  IN
  IF cfg.duplicateRate > 0 /\ r2 < cfg.duplicateRate /\ c.lastEmittedData # <<>>
  THEN [S EXCEPT !.emitted = Append(@, PayloadEv(cfg.streamName, a,
                                                 c.lastEmittedData[1])),
                 !.acts[a].emissionCount = @ + 1]
  ELSE LET data == IF cfg.streamName = "books"
                   THEN generateBookData(c.emissionCount)
                   ELSE generateIssueData(c.emissionCount)
           emitDelay == IF cfg.delayVariation > 0 THEN delay ELSE 0
       IN
       [S EXCEPT !.acts[a].lastEmittedData = <<data>>,
                 !.acts[a].emissionCount = @ + 1,
                 !.timeouts = Append(@, [kind |-> "broadcast", act |-> a,
                                         at |-> t + emitDelay,
                                         data |-> data])]

\* emitPayload whose duplicate test compares the draw with half the rate.
emitPayloadHalfRate(S, a, t, r2, delay) ==
  LET c == S.acts[a]
      cfg == Cfg(c.config)
  IN
  IF cfg.duplicateRate > 0 /\ r2 < cfg.duplicateRate - 50
     /\ c.lastEmittedData # <<>>
  THEN [S EXCEPT !.emitted = Append(@, PayloadEv(cfg.streamName, a,
                                                 c.lastEmittedData[1])),
                 !.acts[a].emissionCount = @ + 1]
  ELSE LET data == IF cfg.streamName = "books"
                   THEN generateBookData(c.emissionCount)
                   ELSE generateIssueData(c.emissionCount)
           emitDelay == IF cfg.delayVariation > 0 THEN delay ELSE 0
       IN
       [S EXCEPT !.acts[a].lastEmittedData = <<data>>,
                 !.timeouts = Append(@, [kind |-> "broadcast", act |-> a,
                                         at |-> t + emitDelay,
                                         data |-> data])]

\* emitPayload that takes the issue generator for the name 'issues' only.
emitPayloadIssuesByName(S, a, t, r2, delay) ==
  LET c == S.acts[a]
      cfg == Cfg(c.config)
  IN
  IF cfg.duplicateRate > 0 /\ r2 < cfg.duplicateRate /\ c.lastEmittedData # <<>>
  THEN [S EXCEPT !.emitted = Append(@, PayloadEv(cfg.streamName, a,
                                                 c.lastEmittedData[1])),
                 !.acts[a].emissionCount = @ + 1]
  ELSE LET data == IF cfg.streamName = "issues"
                   THEN generateIssueData(c.emissionCount)
                   ELSE generateBookData(c.emissionCount)
           emitDelay == IF cfg.delayVariation > 0 THEN delay ELSE 0
       IN
       [S EXCEPT !.acts[a].lastEmittedData = <<data>>,
                 !.timeouts = Append(@, [kind |-> "broadcast", act |-> a,
                                         at |-> t + emitDelay,
                                         data |-> data])]

\* The rest of emitData once neither the duration check nor the error
\* injection has returned: a duplicate of the last payload, or a fresh payload
\* handed to setTimeout.  r2 is the duplicate draw, delay the jitter draw.
emitPayload(S, a, t, r2, delay) ==
  LET c == S.acts[a]
      cfg == Cfg(c.config)
  IN
  IF cfg.duplicateRate > 0 /\ r2 < cfg.duplicateRate /\ c.lastEmittedData # <<>>
  THEN [S EXCEPT !.emitted = Append(@, PayloadEv(cfg.streamName, a,
                                                 c.lastEmittedData[1])),
                 !.acts[a].emissionCount = @ + 1]
  ELSE LET data == IF cfg.streamName = "books"
                   THEN generateBookData(c.emissionCount)
                   ELSE generateIssueData(c.emissionCount)
           emitDelay == IF cfg.delayVariation > 0 THEN delay ELSE 0
       IN
       [S EXCEPT !.acts[a].lastEmittedData = <<data>>,
                 !.timeouts = Append(@, [kind |-> "broadcast", act |-> a,
                                         at |-> t + emitDelay,
                                         data |-> data])]

\* emitData without the return that ends the error branch.
emitDataFallThrough(S, a, t, r1, r2, delay) ==
  LET c == S.acts[a]
      cfg == Cfg(c.config)
      elapsed == t - c.startTime
  IN
  IF durationExceeded(elapsed, cfg.duration)
  THEN LET S1 == stopStream(S, cfg.streamName) IN
       [S1 EXCEPT !.emitted = Append(@, CompleteEv(cfg.streamName, a,
                                                   c.emissionCount, elapsed)),
                  !.acts[a].completes = @ + 1,
                  !.acts[a].status = IF c.status = "RUNNING" THEN "COMPLETE"
                                     ELSE c.status]
  ELSE IF cfg.errorRate > 0 /\ r1 < cfg.errorRate
  THEN emitPayload([S EXCEPT !.emitted = Append(@, ErrorEv(cfg.streamName, a))],
                   a, t, r2, delay)
  ELSE emitPayload(S, a, t, r2, delay)

\* emitData that treats an injected error as fatal and stops the stream.
emitDataErrorStops(S, a, t, r1, r2, delay) ==
  LET c == S.acts[a]
      cfg == Cfg(c.config)
      elapsed == t - c.startTime
  IN
  IF durationExceeded(elapsed, cfg.duration)
  THEN LET S1 == stopStream(S, cfg.streamName) IN
       [S1 EXCEPT !.emitted = Append(@, CompleteEv(cfg.streamName, a,
                                                   c.emissionCount, elapsed)),
                  !.acts[a].completes = @ + 1,
                  !.acts[a].status = IF c.status = "RUNNING" THEN "COMPLETE"
                                     ELSE c.status]
  ELSE IF cfg.errorRate > 0 /\ r1 < cfg.errorRate
  THEN LET S1 == stopStream(S, cfg.streamName) IN
       [S1 EXCEPT !.emitted = Append(@, ErrorEv(cfg.streamName, a))]
  ELSE emitPayload(S, a, t, r2, delay)

\* emitData whose complete event counts one emission too many.
emitDataMiscount(S, a, t, r1, r2, delay) ==
  LET c == S.acts[a]
      cfg == Cfg(c.config)
      elapsed == t - c.startTime
  IN
  IF durationExceeded(elapsed, cfg.duration)
  THEN LET S1 == stopStream(S, cfg.streamName) IN
       [S1 EXCEPT !.emitted = Append(@, CompleteEv(cfg.streamName, a,
                                                   c.emissionCount + 1, elapsed)),
                  !.acts[a].completes = @ + 1,
                  !.acts[a].status = IF c.status = "RUNNING" THEN "COMPLETE"
                                     ELSE c.status]
  ELSE IF cfg.errorRate > 0 /\ r1 < cfg.errorRate
  THEN [S EXCEPT !.emitted = Append(@, ErrorEv(cfg.streamName, a))]
  ELSE emitPayload(S, a, t, r2, delay)

\* emitData whose error test compares the draw with half the rate.
emitDataHalfRate(S, a, t, r1, r2, delay) ==
  LET c == S.acts[a]
      cfg == Cfg(c.config)
      elapsed == t - c.startTime
  IN
  IF durationExceeded(elapsed, cfg.duration)
  THEN LET S1 == stopStream(S, cfg.streamName) IN
       [S1 EXCEPT !.emitted = Append(@, CompleteEv(cfg.streamName, a,
                                                   c.emissionCount, elapsed)),
                  !.acts[a].completes = @ + 1,
                  !.acts[a].status = IF c.status = "RUNNING" THEN "COMPLETE"
                                     ELSE c.status]
  ELSE IF cfg.errorRate > 0 /\ r1 < cfg.errorRate - 50
  THEN [S EXCEPT !.emitted = Append(@, ErrorEv(cfg.streamName, a))]
  ELSE emitPayload(S, a, t, r2, delay)

\* emitData of activation a at time t; r1 is the error draw.  The completing
\* activation is COMPLETE from its first completion on.
emitData(S, a, t, r1, r2, delay) ==
  LET c == S.acts[a]
      cfg == Cfg(c.config)
      elapsed == t - c.startTime
  IN
  IF durationExceeded(elapsed, cfg.duration)
  THEN LET S1 == stopStream(S, cfg.streamName) IN
       [S1 EXCEPT !.emitted = Append(@, CompleteEv(cfg.streamName, a,
                                                   c.emissionCount, elapsed)),
                  !.acts[a].completes = @ + 1,
                  !.acts[a].status = IF c.status = "RUNNING" THEN "COMPLETE"
                                     ELSE c.status]
  ELSE IF cfg.errorRate > 0 /\ r1 < cfg.errorRate
  THEN [S EXCEPT !.emitted = Append(@, ErrorEv(cfg.streamName, a))]
  ELSE emitPayload(S, a, t, r2, delay)

\* One call of emitData, with what it was given and what it did recorded in
\* tick: the events it sent and the number of delayed broadcasts it scheduled.
RunTick(S, a, t, r1, r2, delay) ==
  LET R == emitData(S, a, t, r1, r2, delay) IN
  [R EXCEPT !.tick = <<[act |-> a,
                        elapsed |-> t - S.acts[a].startTime,
                        errDraw |-> r1, dupDraw |-> r2,
                        hadLast |-> S.acts[a].lastEmittedData # <<>>,
                        evs |-> SubSeq(R.emitted, Len(S.emitted) + 1,
                                       Len(R.emitted)),
                        scheduled |-> Len(R.timeouts) - Len(S.timeouts)]>>]

\* The delayed broadcast without emissionCount++.
broadcastNoCount(S, task) ==
  [S EXCEPT !.emitted = Append(@, PayloadEv(Cfg(S.acts[task.act].config).streamName,
                                            task.act, task.data))]

\* The delayed broadcast scheduled by a fresh emission.
broadcast(S, task) ==
  [S EXCEPT !.emitted = Append(@, PayloadEv(Cfg(S.acts[task.act].config).streamName,
                                            task.act, task.data)),
            !.acts[task.act].emissionCount = @ + 1]

\* The burst callback with a loop that stops one item short.
burstFireOneShort(S, a, t) ==
  LET cfg == Cfg(S.acts[a].config) IN
  [S EXCEPT !.timeouts = @ \o [i \in 1..(cfg.burstSize - 1) |->
                                [kind |-> "emitData", act |-> a,
                                 at |-> t + (i - 1) * BurstStagger,
                                 data |-> <<>>]]]

\* The setInterval callback of burst mode: burstSize staggered emitData calls.
burstFire(S, a, t) ==
  LET cfg == Cfg(S.acts[a].config) IN
  [S EXCEPT !.timeouts = @ \o [i \in 1..cfg.burstSize |->
                                [kind |-> "emitData", act |-> a,
                                 at |-> t + (i - 1) * BurstStagger,
                                 data |-> <<>>]]]

\* startStream without the emitData() call that follows setInterval.
startStreamNoImmediate(S, socket, config, t, r1, r2, delay) ==
  LET cfg == Cfg(config)
      streamName == cfg.streamName
      S0 == stopStream(S, streamName)
      \* the activation this call replaces, if one is registered, is marked
      S1 == IF streamName \in DOMAIN S.activeStreams
            THEN [S0 EXCEPT !.acts[S.activeStreams[streamName].act].replaced = TRUE]
            ELSE S0
      a == Len(S.acts) + 1
      S2 == [S1 EXCEPT !.streamConfigs = MapSet(@, streamName, config),
                       !.acts = Append(@, [config |-> config,
                                           startTime |-> t,
                                           emissionCount |-> 0,
                                           lastEmittedData |-> <<>>,
                                           status |-> "RUNNING",
                                           replaced |-> FALSE,
                                           completes |-> 0])]
      S3 == IF cfg.burstMode
            THEN [S2 EXCEPT !.intervals =
                     MapSet(@, a, [act |-> a, period |-> cfg.burstInterval,
                                   next |-> t + cfg.burstInterval])]
            ELSE [S2 EXCEPT !.intervals =
                    MapSet(@, a, [act |-> a, period |-> cfg.interval,
                                  next |-> t + cfg.interval])]
      S4 == [S3 EXCEPT !.activeStreams =
                MapSet(@, streamName, [intervalId |-> a, config |-> config,
                                       startTime |-> t, act |-> a])]
  IN IF socket = "client"
     THEN [S4 EXCEPT !.emitted = Append(@, StartedEv(streamName, config))]
     ELSE S4

\* startStream that announces the start with io.emit, whoever asked for it.
startStreamBroadcast(S, socket, config, t, r1, r2, delay) ==
  LET cfg == Cfg(config)
      streamName == cfg.streamName
      S0 == stopStream(S, streamName)
      \* the activation this call replaces, if one is registered, is marked
      S1 == IF streamName \in DOMAIN S.activeStreams
            THEN [S0 EXCEPT !.acts[S.activeStreams[streamName].act].replaced = TRUE]
            ELSE S0
      a == Len(S.acts) + 1
      S2 == [S1 EXCEPT !.streamConfigs = MapSet(@, streamName, config),
                       !.acts = Append(@, [config |-> config,
                                           startTime |-> t,
                                           emissionCount |-> 0,
                                           lastEmittedData |-> <<>>,
                                           status |-> "RUNNING",
                                           replaced |-> FALSE,
                                           completes |-> 0])]
      S3 == IF cfg.burstMode
            THEN [S2 EXCEPT !.intervals =
                     MapSet(@, a, [act |-> a, period |-> cfg.burstInterval,
                                   next |-> t + cfg.burstInterval])]
            ELSE RunTick([S2 EXCEPT !.intervals =
                            MapSet(@, a, [act |-> a, period |-> cfg.interval,
                                          next |-> t + cfg.interval])],
                         a, t, r1, r2, delay)
      S4 == [S3 EXCEPT !.activeStreams =
                MapSet(@, streamName, [intervalId |-> a, config |-> config,
                                       startTime |-> t, act |-> a])]
  IN [S4 EXCEPT !.emitted =
        Append(@, [StartedEv(streamName, config) EXCEPT !.to = "all"])]

\* startStream without the stopStream call for a stream of the same name.
startStreamKeepOld(S, socket, config, t, r1, r2, delay) ==
  LET cfg == Cfg(config)
      streamName == cfg.streamName
      S0 == S
      \* the activation this call replaces, if one is registered, is marked
      S1 == IF streamName \in DOMAIN S.activeStreams
            THEN [S0 EXCEPT !.acts[S.activeStreams[streamName].act].replaced = TRUE]
            ELSE S0
      a == Len(S.acts) + 1
      S2 == [S1 EXCEPT !.streamConfigs = MapSet(@, streamName, config),
                       !.acts = Append(@, [config |-> config,
                                           startTime |-> t,
                                           emissionCount |-> 0,
                                           lastEmittedData |-> <<>>,
                                           status |-> "RUNNING",
                                           replaced |-> FALSE,
                                           completes |-> 0])]
      S3 == IF cfg.burstMode
            THEN [S2 EXCEPT !.intervals =
                     MapSet(@, a, [act |-> a, period |-> cfg.burstInterval,
                                   next |-> t + cfg.burstInterval])]
            ELSE RunTick([S2 EXCEPT !.intervals =
                            MapSet(@, a, [act |-> a, period |-> cfg.interval,
                                          next |-> t + cfg.interval])],
                         a, t, r1, r2, delay)
      S4 == [S3 EXCEPT !.activeStreams =
                MapSet(@, streamName, [intervalId |-> a, config |-> config,
                                       startTime |-> t, act |-> a])]
  IN IF socket = "client"
     THEN [S4 EXCEPT !.emitted = Append(@, StartedEv(streamName, config))]
     ELSE S4

startStream(S, socket, config, t, r1, r2, delay) ==
  LET cfg == Cfg(config)
      streamName == cfg.streamName
      S0 == stopStream(S, streamName)
      \* the activation this call replaces, if one is registered, is marked
      S1 == IF streamName \in DOMAIN S.activeStreams
            THEN [S0 EXCEPT !.acts[S.activeStreams[streamName].act].replaced = TRUE]
            ELSE S0
      a == Len(S.acts) + 1
      S2 == [S1 EXCEPT !.streamConfigs = MapSet(@, streamName, config),
                       !.acts = Append(@, [config |-> config,
                                           startTime |-> t,
                                           emissionCount |-> 0,
                                           lastEmittedData |-> <<>>,
                                           status |-> "RUNNING",
                                           replaced |-> FALSE,
                                           completes |-> 0])]
      S3 == IF cfg.burstMode
            THEN [S2 EXCEPT !.intervals =
                     MapSet(@, a, [act |-> a, period |-> cfg.burstInterval,
                                   next |-> t + cfg.burstInterval])]
            ELSE RunTick([S2 EXCEPT !.intervals =
                            MapSet(@, a, [act |-> a, period |-> cfg.interval,
                                          next |-> t + cfg.interval])],
                         a, t, r1, r2, delay)
      S4 == [S3 EXCEPT !.activeStreams =
                MapSet(@, streamName, [intervalId |-> a, config |-> config,
                                       startTime |-> t, act |-> a])]
  IN IF socket = "client"
     THEN [S4 EXCEPT !.emitted = Append(@, StartedEv(streamName, config))]
     ELSE S4

\* Map.forEach visits the entries in insertion order, which is the order of
\* the activation numbers; entries deleted before their visit are skipped.
RECURSIVE stopAllFrom(_, _)
stopAllFrom(S, remaining) ==
  IF remaining = {} THEN S
  ELSE LET name == CHOOSE n \in remaining :
                     \A m \in remaining :
                       S.activeStreams[n].act <= S.activeStreams[m].act
       IN stopAllFrom(stopStream(S, name), remaining \ {name})

\* stopAllStreams whose iteration ends after the first deleted entry.
stopAllStreamsFirstOnly(S) ==
  IF DOMAIN S.activeStreams = {} THEN S
  ELSE stopStream(S, CHOOSE n \in DOMAIN S.activeStreams :
                       \A m \in DOMAIN S.activeStreams :
                         S.activeStreams[n].act <= S.activeStreams[m].act)

stopAllStreams(S) == stopAllFrom(S, DOMAIN S.activeStreams)

\* ------------------------------------------------------------------ timers
DueTimes == {intervals[i].next : i \in DOMAIN intervals}
            \cup {timeouts[j].at : j \in 1..Len(timeouts)}
\* A timer runs once its time has come, the earliest expiry first.
CanFire(at) == at <= now /\ \A d \in DueTimes : at <= d

\* ----------------------------------------------------------------- actions
\* The data of the payload events of activation a among events, in order.
PayloadData(evs, a) ==
  LET sel == SelectSeq(evs, LAMBDA e : e.type = "payload" /\ e.act = a)
  IN [i \in 1..Len(sel) |-> sel[i].data]

Commit(S, o, resp) ==
  /\ activeStreams' = S.activeStreams
  /\ streamConfigs' = S.streamConfigs
  /\ intervals' = S.intervals
  /\ timeouts' = S.timeouts
  /\ acts' = S.acts
  /\ emitted' = S.emitted
  /\ tick' = S.tick
  /\ op' = o
  /\ response' = resp
  /\ now' = now
  /\ sent' = [a \in 1..Len(S.acts) |->
               (IF a <= Len(sent) THEN sent[a] ELSE <<>>)
                 \o PayloadData(S.emitted, a)]

Op(kind, via, name, act) == [kind |-> kind, via |-> via, name |-> name, act |-> act]

Init ==
  /\ now = 0
  /\ activeStreams = EmptyMap
  /\ streamConfigs = EmptyMap
  /\ intervals = EmptyMap
  /\ timeouts = <<>>
  /\ acts = <<>>
  /\ emitted = <<>>
  /\ tick = <<>>
  /\ op = Op("init", "", "", 0)
  /\ response = <<>>
  /\ sent = <<>>

\* socket.on('start-stream'), for the configs of a given set
SocketStartFrom(inputs) ==
  \E config \in inputs :
  \E r1 \in Draws(Cfg(config).errorRate), r2 \in Draws(Cfg(config).duplicateRate),
     delay \in Delays(Cfg(config).delayVariation) :
    /\ Len(acts) < MaxActs
    /\ Commit(startStream(Server, "client", config, now, r1, r2, delay),
              Op("start", "socket", Cfg(config).streamName, Len(acts) + 1),
              <<>>)

SocketStart == SocketStartFrom(Inputs)

\* socket.on('stop-stream')
SocketStop ==
  \E streamName \in Names :
    Commit(stopStream(Server, streamName),
           Op("stop", "socket", streamName, 0), <<>>)

\* A connection handler that also replays the last payload of every stream.
SocketConnectReplay ==
  LET live == SelectSeq(<<"books", "issues">>,
                        LAMBDA n : /\ n \in DOMAIN activeStreams
                                   /\ acts[activeStreams[n].act].lastEmittedData
                                        # <<>>)
  IN Commit([Server EXCEPT !.emitted =
               <<ConfigsEv(getStreamConfigs(Server))>>
                 \o [i \in 1..Len(live) |->
                       PayloadEv(live[i], activeStreams[live[i]].act,
                                 acts[activeStreams[live[i]].act].lastEmittedData[1])]],
            Op("connect", "socket", "", 0), <<>>)

\* io.on('connection'): the new socket is sent the current configs.
SocketConnect ==
  Commit([Server EXCEPT !.emitted = <<ConfigsEv(getStreamConfigs(Server))>>],
         Op("connect", "socket", "", 0), <<>>)

\* socket.on('get-configs')
SocketGetConfigs ==
  Commit([Server EXCEPT !.emitted = <<ConfigsEv(getStreamConfigs(Server))>>],
         Op("get-configs", "socket", "", 0), <<>>)

\* POST /streams/stop/:streamName
HttpStop ==
  \E streamName \in Names :
    IF ~socketServerInstance
    THEN Commit(Server, Op("stop", "http", streamName, 0), <<[status |-> 503]>>)
    ELSE Commit(stopStream(Server, streamName),
                Op("stop", "http", streamName, 0), <<[status |-> 200]>>)

\* POST /streams/stop-all
HttpStopAll ==
  IF ~socketServerInstance
  THEN Commit(Server, Op("stop-all", "http", "", 0), <<[status |-> 503]>>)
  ELSE Commit(stopAllStreams(Server),
              Op("stop-all", "http", "", 0), <<[status |-> 200]>>)

\* GET /streams
HttpGetStreams ==
  IF ~socketServerInstance
  THEN Commit(Server, Op("get-streams", "http", "", 0), <<[status |-> 503]>>)
  ELSE Commit(Server, Op("get-streams", "http", "", 0),
              <<[status |-> 200,
                 activeStreams |-> DOMAIN activeStreams,
                 configs |-> getStreamConfigs(Server),
                 totalActive |-> Cardinality(DOMAIN activeStreams)]>>)

\* POST /streams/start without the streamName validation.
HttpStartFromUnvalidated(bodies) ==
  \E config \in bodies :
  \E r1 \in Draws(Cfg(config).errorRate), r2 \in Draws(Cfg(config).duplicateRate),
     delay \in Delays(Cfg(config).delayVariation) :
    /\ Len(acts) < MaxActs
    /\ Commit(startStream(Server, "stub", config, now, r1, r2, delay),
              Op("start", "http", Field(config, "streamName", ""), Len(acts) + 1),
              <<[status |-> 200]>>)

\* POST /streams/start, for the bodies of a given set.  The handler is
\* recorded with the streamName the body names, "" if it names none.
HttpStartFrom(bodies) ==
  \E config \in bodies :
  \E r1 \in Draws(Cfg(config).errorRate), r2 \in Draws(Cfg(config).duplicateRate),
     delay \in Delays(Cfg(config).delayVariation) :
    /\ Len(acts) < MaxActs
    /\ IF ~socketServerInstance
       THEN Commit(Server, Op("start", "http", "", 0), <<[status |-> 503]>>)
       ELSE IF "streamName" \notin DOMAIN config
       THEN Commit(Server, Op("start", "http", "", 0), <<[status |-> 400]>>)
       ELSE Commit(startStream(Server, "stub", config, now, r1, r2, delay),
                   Op("start", "http", config.streamName, Len(acts) + 1),
                   <<[status |-> 200]>>)

HttpStart == HttpStartFrom(Bodies)

\* A setInterval timer fires: emitData in normal mode, a burst in burst mode.
\* The timer is re-armed unless its callback cleared it.
IntervalFire ==
  \E id \in DOMAIN intervals :
  \E r1 \in Draws(Cfg(acts[intervals[id].act].config).errorRate),
     r2 \in Draws(Cfg(acts[intervals[id].act].config).duplicateRate),
     delay \in Delays(Cfg(acts[intervals[id].act].config).delayVariation) :
    /\ CanFire(intervals[id].next)
    /\ LET a == intervals[id].act
           S1 == IF Cfg(acts[a].config).burstMode
                 THEN burstFire(Server, a, now)
                 ELSE RunTick(Server, a, now, r1, r2, delay)
           S2 == IF id \in DOMAIN S1.intervals
                 THEN [S1 EXCEPT !.intervals[id].next = now + intervals[id].period]
                 ELSE S1
       IN Commit(S2, Op("interval", "timer", Cfg(acts[a].config).streamName, a),
                 <<>>)

\* A setTimeout task runs: a staggered emitData of a burst, or the delayed
\* broadcast of a fresh emission.
TimeoutFire ==
  \E i \in 1..Len(timeouts) :
  \E r1 \in Draws(Cfg(acts[timeouts[i].act].config).errorRate),
     r2 \in Draws(Cfg(acts[timeouts[i].act].config).duplicateRate),
     delay \in Delays(Cfg(acts[timeouts[i].act].config).delayVariation) :
    /\ CanFire(timeouts[i].at)
    /\ LET task == timeouts[i]
           S0 == [Server EXCEPT !.timeouts = RemoveAt(@, i)]
           S1 == IF task.kind = "emitData"
                 THEN RunTick(S0, task.act, now, r1, r2, delay)
                 ELSE broadcast(S0, task)
       IN Commit(S1, Op(task.kind, "timer",
                        Cfg(acts[task.act].config).streamName, task.act),
                 <<>>)

\* The clock advances by 100 ms up to a limit, once every timer that is due
\* has run.
AdvanceTimeTo(limit) ==
  /\ now < limit
  /\ \A d \in DueTimes : d > now
  /\ now' = now + 100
  /\ emitted' = <<>>
  /\ tick' = <<>>
  /\ op' = Op("time", "", "", 0)
  /\ response' = <<>>
  /\ UNCHANGED <<activeStreams, streamConfigs, intervals, timeouts, acts, sent>>

AdvanceTime == AdvanceTimeTo(100 * MaxSteps)

\* ------------------------------------------------ streams with rates of 100
\* start-stream configs whose error rate or duplicate rate is 100: every draw
\* of Math.random() * 100 lies below the rate.
RateInputs ==
  { [streamName |-> "books", interval |-> 100, duration |-> 200,
     errorRate |-> 100, duplicateRate |-> 100],
    [streamName |-> "issues", interval |-> 100, duration |-> 200,
     duplicateRate |-> 100] }

RateStart == SocketStartFrom(RateInputs)
RateAdvanceTime == AdvanceTimeTo(100 * (MaxSteps + 1))

NextRates ==
  \/ RateStart
  \/ SocketStop
  \/ IntervalFire
  \/ TimeoutFire
  \/ RateAdvanceTime

SpecRates == Init /\ [][NextRates]_vars

\* ------------------------------------- undisturbed streams in normal mode
\* start-stream configs in normal mode without errors, duplicates or jitter,
\* whose duration is k * interval for k = 3, 2 and 1.
ScheduleInputs ==
  { [streamName |-> "books", interval |-> 100, duration |-> 300,
     errorRate |-> 0, duplicateRate |-> 0],
    [streamName |-> "issues", interval |-> 200, duration |-> 400],
    [streamName |-> "issues", interval |-> 100, duration |-> 100] }

\* A start under a name no stream was started under before: no restart.
ScheduleStart ==
  SocketStartFrom({config \in ScheduleInputs :
                     \A a \in 1..Len(acts) :
                       Cfg(acts[a].config).streamName # config.streamName})

\* Time passes for as long as a timer is pending.
ScheduleAdvanceTime ==
  AdvanceTimeTo(IF DOMAIN intervals # {} \/ timeouts # <<>>
                THEN now + 100 ELSE 100 * MaxSteps)

NextSchedule ==
  \/ ScheduleStart
  \/ SocketGetConfigs
  \/ IntervalFire
  \/ TimeoutFire
  \/ ScheduleAdvanceTime

\* Every timer that is due runs its callback, and time passes.
SpecSchedule ==
  /\ Init
  /\ [][NextSchedule]_vars
  /\ WF_vars(IntervalFire)
  /\ WF_vars(TimeoutFire)
  /\ WF_vars(ScheduleAdvanceTime)

\* ---------------------------------------------------------------- presets
\* The preset catalog of POST /presets/:presetName; each preset is given by
\* Object.values of it, its sub-configs in insertion order.
presets ==
  [basic |->
     <<[streamName |-> "books", interval |-> 2000, duration |-> 60000],
       [streamName |-> "issues", interval |-> 3000, duration |-> 60000]>>,
   throttleDebounce |->
     <<[streamName |-> "books", interval |-> 500, duration |-> 60000,
        burstMode |-> TRUE, burstSize |-> 5, burstInterval |-> 8000]>>,
   errorHandling |->
     <<[streamName |-> "books", interval |-> 2000, duration |-> 90000,
        errorRate |-> 20]>>,
   distinctDuplicates |->
     <<[streamName |-> "books", interval |-> 2000, duration |-> 60000,
        duplicateRate |-> 30]>>,
   combination |->
     <<[streamName |-> "books", interval |-> 3000, duration |-> 120000],
       [streamName |-> "issues", interval |-> 2000, duration |-> 120000]>>,
   switching |->
     <<[streamName |-> "books", interval |-> 4000, duration |-> 90000,
        delayVariation |-> 2000],
       [streamName |-> "issues", interval |-> 1500, duration |-> 90000,
        delayVariation |-> 1000]>>,
   buffering |->
     <<[streamName |-> "books", interval |-> 800, duration |-> 60000]>>,
   timing |->
     <<[streamName |-> "books", interval |-> 3000, duration |-> 120000,
        delayVariation |-> 3000]>>]

\* Names every object literal inherits from Object.prototype: presets[name]
\* is a function or an object for them, with no enumerable property of its own.
ObjectPrototypeKeys == {"constructor", "toString", "__proto__"}

\* The test !preset on presets[presetName].
presetFound(presetName) ==
  presetName \in DOMAIN presets \cup ObjectPrototypeKeys

\* A start catalog whose intervals have drifted from the listed ones.
presetValuesDrifted(presetName) ==
  IF presetName \in DOMAIN presets
  THEN [k \in 1..Len(presets[presetName]) |->
          [presets[presetName][k] EXCEPT !.interval = @ + 500]]
  ELSE <<>>

\* Object.values(presets[presetName]) of a name that was found.
presetValues(presetName) ==
  IF presetName \in DOMAIN presets THEN presets[presetName] ELSE <<>>

\* The values Math.random() takes in one startStream call.
DrawsFor(config) ==
  {[r1 |-> r1, r2 |-> r2, delay |-> delay] :
     r1 \in Draws(Cfg(config).errorRate),
     r2 \in Draws(Cfg(config).duplicateRate),
     delay \in Delays(Cfg(config).delayVariation)}

\* The draws of the startStream calls of a sequence of configs.
RECURSIVE DrawSeqs(_)
DrawSeqs(configs) ==
  IF configs = <<>> THEN {<<>>}
  ELSE {<<d>> \o rest : d \in DrawsFor(Head(configs)),
                        rest \in DrawSeqs(Tail(configs))}

\* forEach that returns after its first callback.
startEachFirstOnly(S, configs, draws, t) ==
  IF configs = <<>> THEN S
  ELSE startStream(S, "stub", Head(configs), t,
                   Head(draws).r1, Head(draws).r2, Head(draws).delay)

\* forEach whose callback clears the registry before it starts its stream.
RECURSIVE startEachAfterStopAll(_, _, _, _)
startEachAfterStopAll(S, configs, draws, t) ==
  IF configs = <<>> THEN S
  ELSE startEachAfterStopAll(
         startStream(stopAllStreams(S), "stub", Head(configs), t,
                     Head(draws).r1, Head(draws).r2, Head(draws).delay),
         Tail(configs), Tail(draws), t)

\* Object.values(preset).forEach(config => startStream({emit}, config))
RECURSIVE startEach(_, _, _, _)
startEach(S, configs, draws, t) ==
  IF configs = <<>> THEN S
  ELSE startEach(startStream(S, "stub", Head(configs), t,
                             Head(draws).r1, Head(draws).r2, Head(draws).delay),
                 Tail(configs), Tail(draws), t)

\* Preset names of requests: those of the catalog, a name that nothing
\* defines and a name defined by Object.prototype only.
PresetRequests == DOMAIN presets \cup {"nope", "constructor"}

\* POST /presets/:presetName
HttpPreset ==
  \E presetName \in PresetRequests :
  \E draws \in DrawSeqs(presetValues(presetName)) :
    /\ Len(acts) + Len(presetValues(presetName)) <= MaxActs
    /\ IF ~socketServerInstance
       THEN Commit(Server, Op("preset", "http", presetName, 0),
                   <<[status |-> 503]>>)
       ELSE IF ~presetFound(presetName)
       THEN Commit(Server, Op("preset", "http", presetName, 0),
                   <<[status |-> 404]>>)
       ELSE Commit(startEach(Server, presetValues(presetName), draws, now),
                   Op("preset", "http", presetName, 0),
                   <<[status |-> 200]>>)

\* A start-stream config and the bodies of POST /streams/start that go with
\* the presets.
PresetInputs == { [streamName |-> "issues", interval |-> 100, duration |-> 200] }
PresetBodies ==
  { [interval |-> 100],
    [streamName |-> "books", interval |-> 100, duration |-> 100] }

PresetSocketStart == SocketStartFrom(PresetInputs)
PresetHttpStart == HttpStartFrom(PresetBodies)

NextPresets ==
  \/ PresetSocketStart
  \/ PresetHttpStart
  \/ HttpPreset
  \/ IntervalFire
  \/ TimeoutFire
  \/ AdvanceTime

SpecPresets == Init /\ [][NextPresets]_vars

\* ------------------------------------------------------ preset catalogs
\* The keys of each preset of the catalog of POST /presets/:presetName, in
\* insertion order: presets[p][k] is the value under presetKeys[p][k].
presetKeys ==
  [basic |-> <<"books", "issues">>,
   throttleDebounce |-> <<"books">>,
   errorHandling |-> <<"books">>,
   distinctDuplicates |-> <<"books">>,
   combination |-> <<"books", "issues">>,
   switching |-> <<"books", "issues">>,
   buffering |-> <<"books">>,
   timing |-> <<"books">>]

\* The catalog GET /presets answers with: each preset carries a display name
\* and a description next to its sub-stream configs.
listedPresets ==
  [basic |->
     [name |-> "Basic Stream",
      description |-> "Simple stream for teaching map, filter, tap",
      books |-> [streamName |-> "books", interval |-> 2000, duration |-> 60000],
      issues |-> [streamName |-> "issues", interval |-> 3000, duration |-> 60000]],
   throttleDebounce |->
     [name |-> "Throttle vs Debounce",
      description |-> "Fast bursts to demonstrate throttle/debounce",
      books |-> [streamName |-> "books", interval |-> 500, duration |-> 60000, burstMode |-> TRUE, burstSize |-> 5, burstInterval |-> 8000]],
   errorHandling |->
     [name |-> "Error Handling",
      description |-> "Random errors for catchError, retry operators",
      books |-> [streamName |-> "books", interval |-> 2000, duration |-> 90000, errorRate |-> 20]],
   distinctDuplicates |->
     [name |-> "Distinct & Duplicates",
      description |-> "Duplicate data for distinctUntilChanged",
      books |-> [streamName |-> "books", interval |-> 2000, duration |-> 60000, duplicateRate |-> 30]],
   combination |->
     [name |-> "Combination Operators",
      description |-> "Two streams for combineLatest, merge, zip",
      books |-> [streamName |-> "books", interval |-> 3000, duration |-> 120000],
      issues |-> [streamName |-> "issues", interval |-> 2000, duration |-> 120000]],
   switching |->
     [name |-> "Switching Operators",
      description |-> "Variable delays for switchMap, mergeMap, concatMap",
      books |-> [streamName |-> "books", interval |-> 4000, duration |-> 90000, delayVariation |-> 2000],
      issues |-> [streamName |-> "issues", interval |-> 1500, duration |-> 90000, delayVariation |-> 1000]],
   buffering |->
     [name |-> "Buffering & Windowing",
      description |-> "Fast stream for buffer operators",
      books |-> [streamName |-> "books", interval |-> 800, duration |-> 60000]],
   timing |->
     [name |-> "Timing Operators",
      description |-> "Variable timing for delay, timeout, sample",
      books |-> [streamName |-> "books", interval |-> 3000, duration |-> 120000, delayVariation |-> 3000]]]

\* The keys of a listed preset that hold a sub-stream config.
subStreamKeys(preset) == DOMAIN preset \ {"name", "description"}

\* GET /presets
HttpGetPresets ==
  Commit(Server, Op("get-presets", "http", "", 0),
         <<[status |-> 200, presets |-> listedPresets]>>)

NextCatalog ==
  \/ HttpGetPresets
  \/ HttpPreset
  \/ HttpStopAll
  \/ TimeoutFire
  \/ AdvanceTime

SpecCatalog == Init /\ [][NextCatalog]_vars

\* -------------------------------------------------------- the generators
\* this.issueTypes of the constructor.
issueTypes ==
  <<"borrowed", "returned", "renewed", "damaged", "lost", "reserved", "overdue">>

\* Values of Math.floor(Math.random() * this.issueTypes.length) and of
\* Math.floor(Math.random() * 50): the ends of their ranges and one between.
TypeDraws == 0..(Len(issueTypes) - 1)
FineDraws == {0, 25, 49}

\* 14 * 24 * 60 * 60 * 1000
DueAfter == 14 * 24 * 60 * 60 * 1000

\* The record generateIssueData returns at time t, with the fields its draws
\* decide: generateIssueData(index) is its id, a null dueDate is the empty
\* sequence.
issueData(index, typeDraw, fineDraw, t) ==
  LET issueType == issueTypes[typeDraw + 1] IN
  [kind |-> "issue",
   id |-> generateIssueData(index).id,
   issueType |-> issueType,
   dueDate |-> IF issueType = "borrowed" THEN <<t + DueAfter>> ELSE <<>>,
   fine |-> IF issueType = "overdue" THEN fineDraw + 5 ELSE 0]

\* The generator call of emitData.
generate(streamName, index, typeDraw, fineDraw, t) ==
  IF streamName = "books"
  THEN generateBookData(index)
  ELSE issueData(index, typeDraw, fineDraw, t)

\* Stream names and values of emissionCount the generator call is given.
GeneratorNames == {"books", "issues", "custom"}
MaxIndex == 2

\* The generator call of emitData applied to a name, a count and draws; the
\* record it returns is kept in response.
Generate ==
  \E streamName \in GeneratorNames, index \in 0..MaxIndex,
     typeDraw \in TypeDraws, fineDraw \in FineDraws :
    \* generateBookData takes neither draw, and the fine is drawn for an
    \* overdue issue only
    /\ streamName = "books" => typeDraw = 0
    /\ (streamName = "books" \/ issueTypes[typeDraw + 1] # "overdue") =>
         fineDraw = 0
    /\ Commit(Server, Op("generate", "", streamName, 0),
              <<[index |-> index,
                 data |-> generate(streamName, index, typeDraw, fineDraw, now)]>>)

\* start-stream configs under the name 'books' and under a name that is
\* neither 'books' nor 'issues', the second with jitter above its interval.
GeneratorInputs ==
  { [streamName |-> "books", interval |-> 100, duration |-> 300],
    [streamName |-> "custom", interval |-> 100, duration |-> 300,
     delayVariation |-> 200] }

\* A start under a name no stream was started under before.
GeneratorStart ==
  SocketStartFrom({config \in GeneratorInputs :
                     \A a \in 1..Len(acts) :
                       Cfg(acts[a].config).streamName # config.streamName})

NextGenerators ==
  \/ GeneratorStart
  \/ Generate
  \/ IntervalFire
  \/ TimeoutFire
  \/ AdvanceTime

SpecGenerators == Init /\ [][NextGenerators]_vars

\* ------------------------------------------------- streams with jitter
\* start-stream configs whose delayVariation exceeds their interval, so that a
\* delayed broadcast can still be pending when the next interval fires.
JitterInputs ==
  { [streamName |-> "books", interval |-> 100, duration |-> 300,
     duplicateRate |-> 50, delayVariation |-> 300],
    [streamName |-> "issues", interval |-> 100, duration |-> 300,
     delayVariation |-> 200] }

\* A start under a name no stream was started under before.
JitterStart ==
  SocketStartFrom({config \in JitterInputs :
                     \A a \in 1..Len(acts) :
                       Cfg(acts[a].config).streamName # config.streamName})

NextJitter ==
  \/ JitterStart
  \/ SocketStop
  \/ IntervalFire
  \/ TimeoutFire
  \/ AdvanceTime

SpecJitter == Init /\ [][NextJitter]_vars

\* ------------------------------------------------- connecting listeners
\* Listeners connect and ask for the configs while streams run.
NextListeners ==
  \/ RateStart
  \/ SocketStop
  \/ SocketConnect
  \/ SocketGetConfigs
  \/ IntervalFire
  \/ TimeoutFire
  \/ RateAdvanceTime

SpecListeners == Init /\ [][NextListeners]_vars

\* ------------------------------------------- streams left to their duration
\* start-stream configs with a finite duration: normal mode with injected
\* errors, burst mode with bursts of two and of no items, and normal mode
\* with duration 0.
LifetimeInputs ==
  { [streamName |-> "books", interval |-> 100, duration |-> 200,
     errorRate |-> 50],
    [streamName |-> "issues", duration |-> 100, burstMode |-> TRUE,
     burstSize |-> 2, burstInterval |-> 100],
    [streamName |-> "issues", duration |-> 100, burstMode |-> TRUE,
     burstSize |-> 0, burstInterval |-> 100],
    [interval |-> 100, duration |-> 0] }

\* A start, within the first MaxSteps steps of the clock, under a name no
\* stream was started under before; nothing stops or replaces a stream.
LifetimeStart ==
  /\ now <= 100 * MaxSteps
  /\ SocketStartFrom({config \in LifetimeInputs :
                        \A a \in 1..Len(acts) :
                          Cfg(acts[a].config).streamName
                            # Cfg(config).streamName})

\* Time passes while a timer is pending, up to a horizon that lies beyond
\* the end of every stream.
LifetimeAdvanceTime ==
  AdvanceTimeTo(IF DOMAIN intervals # {} \/ timeouts # <<>>
                THEN 100 * (MaxSteps + 4) ELSE 100 * MaxSteps)

NextLifetime ==
  \/ LifetimeStart
  \/ IntervalFire
  \/ TimeoutFire
  \/ LifetimeAdvanceTime

\* Every timer that is due runs its callback, and time passes.
SpecLifetime ==
  /\ Init
  /\ [][NextLifetime]_vars
  /\ WF_vars(IntervalFire)
  /\ WF_vars(TimeoutFire)
  /\ WF_vars(LifetimeAdvanceTime)

Next ==
  \/ SocketStart
  \/ SocketStop
  \/ SocketGetConfigs
  \/ HttpStart
  \/ HttpStop
  \/ HttpStopAll
  \/ HttpGetStreams
  \/ IntervalFire
  \/ TimeoutFire
  \/ AdvanceTime

Spec == Init /\ [][Next]_vars

\* ------------------------------------------------------------- properties
Activations == 1..Len(acts)
GetConfigs == getStreamConfigs(Server)

\* The kinds of effect a recorded emitData call had.
Effects(tk) ==
  {k \in {"complete", "error", "duplicate", "fresh"} :
     \/ k = "complete" /\ \E i \in 1..Len(tk.evs) : tk.evs[i].type = "complete"
     \/ k = "error" /\ \E i \in 1..Len(tk.evs) : tk.evs[i].type = "error"
     \/ k = "duplicate" /\ \E i \in 1..Len(tk.evs) : tk.evs[i].type = "payload"
     \/ k = "fresh" /\ tk.scheduled > 0}

\* Number of payload events of activation a in a sequence of events.
Payloads(evs, a) ==
  Cardinality({i \in 1..Len(evs) : evs[i].type = "payload" /\ evs[i].act = a})

\* C1: once a start under name N has replaced a running stream, no emission
\* attempt (emitData call) of the replaced activation executes any more.
C1_NoTickOfReplacedActivation ==
  \A i \in 1..Len(tick) : ~acts[tick[i].act].replaced

\* C2: once an activation is STOPPED or COMPLETE it stays so, its
\* emissionCount no longer changes and it broadcasts no payload event.
C2_TerminalIsFrozen ==
  [][\A a \in Activations :
       acts[a].status \in {"STOPPED", "COMPLETE"} =>
         /\ acts'[a].status = acts[a].status
         /\ acts'[a].emissionCount = acts[a].emissionCount
         /\ Payloads(emitted', a) = 0]_vars

\* C3: an activation broadcasts its <name>-complete event at most once.
C3_CompleteAtMostOnce ==
  \A a \in Activations : acts[a].completes <= 1

\* C4: a registry entry is removed only by a stop or stopAll naming it, by a
\* start under its name, or by a tick of its own activation that finds its
\* own duration elapsed.
C4_RemovalOnlyByOwnPaths ==
  [][\A n \in DOMAIN activeStreams :
       (n \notin DOMAIN activeStreams'
          \/ activeStreams'[n].act # activeStreams[n].act) =>
         \/ op'.kind = "stop" /\ op'.name = n
         \/ op'.kind = "stop-all"
         \/ op'.kind = "start" /\ op'.name = n
         \/ \E i \in 1..Len(tick') :
              /\ tick'[i].act = activeStreams[n].act
              /\ tick'[i].elapsed >= Cfg(activeStreams[n].config).duration]_vars

\* C5: every emitData call has exactly one of the effects duration-complete,
\* error, duplicate, fresh, and it is the first one in that order whose
\* condition holds.
C5_ExactlyOneBranch ==
  \A i \in 1..Len(tick) :
    LET tk == tick[i]
        cfg == Cfg(acts[tk.act].config)
    IN /\ Cardinality(Effects(tk)) = 1
       /\ Effects(tk) =
            { IF tk.elapsed >= cfg.duration THEN "complete"
              ELSE IF cfg.errorRate > 0 /\ tk.errDraw < cfg.errorRate THEN "error"
              ELSE IF cfg.duplicateRate > 0 /\ tk.dupDraw < cfg.duplicateRate
                      /\ tk.hadLast THEN "duplicate"
              ELSE "fresh" }

C5_Witness ==
  /\ tick # <<>>
  /\ Effects(tick[1]) = {"duplicate"}
  /\ Cfg(acts[tick[1].act].config).errorRate > 0

\* C6: while an activation is RUNNING, a step raises its emissionCount by the
\* number of payload events (fresh or duplicate) it broadcasts in that step,
\* an error tick leaves it unchanged, and it never decreases.
C6_CountFollowsEmissions ==
  [][\A a \in 1..Len(acts') :
       LET before == IF a <= Len(acts) THEN acts[a].emissionCount ELSE 0
           running == IF a <= Len(acts) THEN acts[a].status = "RUNNING" ELSE TRUE
       IN running =>
            /\ acts'[a].emissionCount = before + Payloads(emitted', a)
            /\ Payloads(emitted', a) <= 1
            /\ acts'[a].emissionCount >= before
            /\ (\E i \in 1..Len(tick') :
                  tick'[i].act = a /\ "error" \in Effects(tick'[i]))
               => acts'[a].emissionCount = before]_vars

C6_Witness ==
  \E a \in Activations :
    /\ acts[a].status = "RUNNING"
    /\ acts[a].emissionCount = 2
    /\ Payloads(emitted, a) = 1
    /\ tick = <<>>

\* C7: a <name>-complete event is broadcast only when the time since the
\* activation's startTime has reached its configured duration, and the
\* event's duration field is at least the configured duration.
C7_CompleteNotEarly ==
  \A i \in 1..Len(emitted) :
    emitted[i].type = "complete" =>
      /\ now - acts[emitted[i].act].startTime
           >= Cfg(acts[emitted[i].act].config).duration
      /\ emitted[i].duration >= Cfg(acts[emitted[i].act].config).duration

C7_Witness ==
  \E i \in 1..Len(emitted) :
    /\ emitted[i].type = "complete"
    /\ Cfg(acts[emitted[i].act].config).duration > 0

\* C8: stop(N) on a registered stream clears its interval timer, removes N
\* from the registry and from getStreamConfigs(), and broadcasts exactly one
\* stream-stopped event for N, all in the same call.
C8_StopRunning ==
  [][\A n \in DOMAIN activeStreams :
       (op'.kind = "stop" /\ op'.name = n) =>
         /\ activeStreams[n].intervalId \notin DOMAIN intervals'
         /\ n \notin DOMAIN activeStreams'
         /\ n \notin DOMAIN GetConfigs'
         /\ emitted' = <<StoppedEv(n)>>]_vars

C8_Witness ==
  /\ op.kind = "stop"
  /\ emitted = <<StoppedEv(op.name)>>
  /\ op.name \notin DOMAIN activeStreams

\* C9: stop(N) for an unregistered N changes nothing and broadcasts nothing;
\* a second stop(N) changes nothing after the first; POST /streams/stop/N
\* answers 200 whether or not N was registered.
C9_StopIdempotent ==
  [][/\ \A n \in Names :
          (op'.kind = "stop" /\ op'.name = n /\ n \notin DOMAIN activeStreams) =>
            /\ UNCHANGED <<activeStreams, streamConfigs, intervals, timeouts, acts>>
            /\ emitted' = <<>>
     /\ \A n \in Names :
          LET once == [stopStream(Server, n) EXCEPT !.emitted = <<>>]
          IN stopStream(once, n) = once
     /\ (op'.kind = "stop" /\ op'.via = "http") => response' = <<[status |-> 200]>>
    ]_vars

C9_Witness ==
  /\ op.kind = "stop"
  /\ op.via = "http"
  /\ emitted = <<>>
  /\ activeStreams # EmptyMap

Count(evs, e) == Cardinality({i \in 1..Len(evs) : evs[i] = e})

\* C11: after stopAllStreams the registry and getStreamConfigs() are empty,
\* the interval timer of every stream that was registered is cleared, and
\* exactly one stream-stopped event was broadcast for each of them.
C11_StopAllStopsEverything ==
  [][op'.kind = "stop-all" =>
       /\ DOMAIN activeStreams' = {}
       /\ DOMAIN GetConfigs' = {}
       /\ \A n \in DOMAIN activeStreams :
            /\ activeStreams[n].intervalId \notin DOMAIN intervals'
            /\ Count(emitted', StoppedEv(n)) = 1
       /\ Len(emitted') = Cardinality(DOMAIN activeStreams)
       /\ response' = <<[status |-> 200]>>]_vars

C11_Witness ==
  /\ op.kind = "stop-all"
  /\ Len(emitted) = 2
  /\ DOMAIN activeStreams = {}

\* C15: in burst mode every firing of the interval timer schedules exactly
\* burstSize emitData calls at offsets 0, 100, ..., (burstSize - 1) * 100 and
\* runs none itself; the timer's period is burstInterval, whatever interval
\* is; the start runs no emitData, and no emitData of the stream runs before
\* burstInterval has elapsed.
C15_BurstSchedule ==
  [][/\ (op'.kind = "interval" /\ Cfg(acts[op'.act].config).burstMode) =>
          LET a == op'.act
              cfg == Cfg(acts[a].config)
          IN /\ tick' = <<>>
             /\ timeouts' = timeouts \o
                  [i \in 1..cfg.burstSize |->
                     [kind |-> "emitData", act |-> a,
                      at |-> now + (i - 1) * 100, data |-> <<>>]]
             /\ intervals'[a].next = now + cfg.burstInterval
     /\ (op'.kind = "start" /\ op'.act > 0
           /\ Cfg(acts'[op'.act].config).burstMode) =>
          /\ tick' = <<>>
          /\ timeouts' = timeouts
          /\ intervals'[op'.act].next
               = now + Cfg(acts'[op'.act].config).burstInterval
     /\ \A i \in 1..Len(tick') :
          Cfg(acts'[tick'[i].act].config).burstMode =>
            tick'[i].elapsed >= Cfg(acts'[tick'[i].act].config).burstInterval
    ]_vars

C15_Witness ==
  /\ op.kind = "interval"
  /\ Cfg(acts[op.act].config).burstMode
  /\ \E i \in 1..Len(timeouts) :
       /\ i < Len(timeouts)
       /\ timeouts[i].kind = "emitData" /\ timeouts[i].at = now
       /\ timeouts[i + 1].kind = "emitData" /\ timeouts[i + 1].at = now + 100

\* C16: once a stream has been stopped, none of its pending tasks runs: no
\* staggered emitData call of a burst and no delayed broadcast.
C16_NoTaskAfterStop ==
  op.kind \in {"emitData", "broadcast"} => acts[op.act].status # "STOPPED"

\* C19: POST /streams/start with a body that names no streamName answers 400,
\* stops and starts nothing, creates no timer and broadcasts no event.
C19_MissingNameRejected ==
  [][(op'.kind = "start" /\ op'.via = "http" /\ op'.name = "") =>
       /\ response' = <<[status |-> 400]>>
       /\ UNCHANGED <<activeStreams, streamConfigs, intervals, timeouts, acts>>
       /\ emitted' = <<>>]_vars

C19_Witness ==
  /\ op.kind = "start"
  /\ op.via = "http"
  /\ op.name = ""
  /\ response = <<[status |-> 400]>>
  /\ DOMAIN activeStreams # {}

\* C12: a stream with errorRate = 100 never broadcasts a payload: each of its
\* emitData calls before the duration has elapsed is an error tick and nothing
\* else, emissionCount stays 0 and no payload is ever generated, so its
\* complete event reports totalEmissions = 0.
C12_ErrorRate100 ==
  \A a \in Activations :
    Cfg(acts[a].config).errorRate = 100 =>
      /\ acts[a].emissionCount = 0
      /\ acts[a].lastEmittedData = <<>>
      /\ \A i \in 1..Len(timeouts) : timeouts[i].act = a =>
           timeouts[i].kind # "broadcast"
      /\ Payloads(emitted, a) = 0
      /\ \A i \in 1..Len(emitted) :
           (emitted[i].type = "complete" /\ emitted[i].act = a) =>
             emitted[i].totalEmissions = 0
      /\ \A i \in 1..Len(tick) : tick[i].act = a =>
           /\ tick[i].scheduled = 0
           /\ Effects(tick[i]) =
                IF tick[i].elapsed >= Cfg(acts[a].config).duration
                THEN {"complete"} ELSE {"error"}

C12_Witness ==
  \E a \in Activations :
    /\ Cfg(acts[a].config).errorRate = 100
    /\ \E i \in 1..Len(emitted) :
         emitted[i] = CompleteEv(Cfg(acts[a].config).streamName, a, 0, 200)

\* C13: in a stream with duplicateRate = 100 and errorRate = 0, once a last
\* payload exists it is never replaced, every later emitData call before the
\* duration has elapsed broadcasts exactly that payload and generates nothing,
\* and every payload event of the activation carries that one payload.
C13_DuplicateRate100 ==
  [][\A a \in 1..Len(acts') :
       (Cfg(acts'[a].config).duplicateRate = 100
          /\ Cfg(acts'[a].config).errorRate = 0) =>
         /\ (a \in Activations /\ acts[a].lastEmittedData # <<>>) =>
              acts'[a].lastEmittedData = acts[a].lastEmittedData
         /\ \A i \in 1..Len(emitted') :
              (emitted'[i].type = "payload" /\ emitted'[i].act = a) =>
                acts'[a].lastEmittedData = <<emitted'[i].data>>
         /\ \A i \in 1..Len(tick') :
              (tick'[i].act = a /\ tick'[i].hadLast
                 /\ tick'[i].elapsed < Cfg(acts'[a].config).duration) =>
                /\ tick'[i].scheduled = 0
                /\ tick'[i].evs =
                     <<PayloadEv(Cfg(acts'[a].config).streamName, a,
                                 acts[a].lastEmittedData[1])>>]_vars

C13_Witness ==
  \E i \in 1..Len(tick) :
    /\ Cfg(acts[tick[i].act].config).duplicateRate = 100
    /\ Cfg(acts[tick[i].act].config).errorRate = 0
    /\ tick[i].hadLast
    /\ Effects(tick[i]) = {"duplicate"}
    /\ acts[tick[i].act].emissionCount = 2

\* The number k of intervals in the duration of activation a.
Rounds(a) == Cfg(acts[a].config).duration \div Cfg(acts[a].config).interval

\* What C14 says of every state of an undisturbed normal-mode stream.
ScheduleKept ==
  \A a \in Activations :
    LET cfg == Cfg(acts[a].config)
        elapsed == now - acts[a].startTime
    IN /\ acts[a].emissionCount <= Rounds(a)
       /\ (op.kind = "start" /\ op.act = a) =>
            /\ Len(tick) = 1 /\ Effects(tick[1]) = {"fresh"}
            /\ \E i \in 1..Len(timeouts) :
                 timeouts[i].kind = "broadcast" /\ timeouts[i].act = a
                   /\ timeouts[i].at = now
       /\ \A i \in 1..Len(emitted) :
            /\ (emitted[i].type = "payload" /\ emitted[i].act = a) =>
                 /\ elapsed = (acts[a].emissionCount - 1) * cfg.interval
                 /\ acts[a].completes = 0
            /\ (emitted[i].type = "complete" /\ emitted[i].act = a) =>
                 emitted[i] = CompleteEv(cfg.streamName, a, Rounds(a),
                                         Rounds(a) * cfg.interval)
            /\ emitted[i].type # "error"

\* C14: a normal-mode stream without errors, duplicates and jitter whose
\* duration is k * interval, left alone, emits first at its start, broadcasts
\* its payloads at 0, interval, ..., (k - 1) * interval, never more than k, and
\* then completes with a complete event that reports totalEmissions = k.
C14_NormalSchedule ==
  /\ []ScheduleKept
  /\ \A a \in 1..MaxActs :
       (Len(acts) >= a) ~>
         (Len(acts) >= a /\ acts[a].completes = 1
            /\ acts[a].emissionCount = Rounds(a)
            /\ acts[a].status = "COMPLETE")

C14_Witness ==
  \E a \in Activations :
    /\ Rounds(a) = 3
    /\ op.act = a
    /\ emitted = <<StoppedEv("books"), CompleteEv("books", a, 3, 300)>>

\* The stream-started events among the events of the last handler.
StartedEvents(evs) == {i \in 1..Len(evs) : evs[i].type = "stream-started"}

\* C17 as stated: every successful start, over the socket, by POST
\* /streams/start or by a preset, broadcasts stream-started({streamName,
\* config}) to all listeners.
C17_StartedBroadcastToAll ==
  [][/\ (op'.kind = "start" /\ op'.act > 0) =>
          \E i \in StartedEvents(emitted') :
            /\ emitted'[i].to = "all"
            /\ emitted'[i].streamName = op'.name
            /\ emitted'[i].config = acts'[op'.act].config
     /\ (op'.kind = "preset" /\ op'.name \in DOMAIN presets) =>
          \A k \in 1..Len(presets[op'.name]) :
            \E i \in StartedEvents(emitted') :
              /\ emitted'[i].to = "all"
              /\ emitted'[i].streamName = presets[op'.name][k].streamName
              /\ emitted'[i].config = presets[op'.name][k]]_vars

\* C17, amended: a start over the socket sends exactly one
\* stream-started({streamName, config}), to the socket that asked for it and
\* to no other listener; a start by POST /streams/start or by a preset sends
\* no stream-started event at all.
C17_StartedToCallerOnly ==
  [][/\ (op'.kind = "start" /\ op'.via = "socket") =>
          /\ Cardinality(StartedEvents(emitted')) = 1
          /\ emitted'[Len(emitted')]
               = StartedEv(op'.name, acts'[op'.act].config)
          /\ emitted'[Len(emitted')].to = "socket"
     /\ (op'.via = "http" /\ op'.kind \in {"start", "preset"}) =>
          StartedEvents(emitted') = {}]_vars

C17_Witness ==
  /\ op.kind = "start"
  /\ op.via = "socket"
  /\ emitted = <<StoppedEv("issues"),
                 StartedEv("issues", acts[op.act].config)>>
  /\ acts[1].status = "STOPPED"

\* C18: a preset of the catalog is answered with 200 and starts every one of
\* its sub-configs with startStream: a stream registered under the
\* sub-config's name is stopped first, and afterwards the name is registered,
\* in the registry and in the configs, with exactly that sub-config, running
\* on a timer of its own from the time of the request.
C18_PresetStartsAll ==
  [][(op'.kind = "preset" /\ op'.name \in DOMAIN presets) =>
       /\ response' = <<[status |-> 200]>>
       /\ Len(acts') = Len(acts) + Len(presets[op'.name])
       /\ \A k \in 1..Len(presets[op'.name]) :
            LET config == presets[op'.name][k]
                name == config.streamName
            IN /\ name \in DOMAIN activeStreams'
               /\ activeStreams'[name].config = config
               /\ activeStreams'[name].startTime = now
               /\ activeStreams'[name].intervalId \in DOMAIN intervals'
               /\ activeStreams'[name].act > Len(acts)
               /\ acts'[activeStreams'[name].act].status = "RUNNING"
               /\ name \in DOMAIN GetConfigs'
               /\ GetConfigs'[name] = config
               /\ name \in DOMAIN activeStreams =>
                    /\ Count(emitted', StoppedEv(name)) = 1
                    /\ activeStreams[name].intervalId \notin DOMAIN intervals'
       ]_vars

C18_Witness ==
  /\ op.kind = "preset"
  /\ op.name = "basic"
  /\ DOMAIN activeStreams = {"books", "issues"}
  /\ activeStreams["books"].config = presets["basic"][1]
  /\ activeStreams["issues"].config = presets["basic"][2]

\* C20: a preset request whose name is not one of the catalog is answered
\* with 404 and changes nothing: registry, configs, timers and streams stay
\* as they are and no event is broadcast.
C20_UnknownPresetRejected ==
  [][(op'.kind = "preset" /\ op'.name \notin DOMAIN presets) =>
       /\ response' = <<[status |-> 404]>>
       /\ UNCHANGED <<activeStreams, streamConfigs, intervals, timeouts, acts>>
       /\ emitted' = <<>>]_vars

\* C21: a stream started with duration = 0 runs without limit: none of its
\* emitData calls takes the duration-complete branch.
C21_DurationZeroIsInfinite ==
  \A i \in 1..Len(tick) :
    Cfg(acts[tick[i].act].config).duration = 0 =>
      "complete" \notin Effects(tick[i])

\* C24: the totalEmissions of a complete event is the number of payload
\* events, fresh and duplicate, the completing activation has broadcast on its
\* channel, and the event's streamName is the activation's name.
C24_TotalIsBroadcastCount ==
  \A i \in 1..Len(emitted) :
    emitted[i].type = "complete" =>
      /\ emitted[i].totalEmissions = Len(sent[emitted[i].act])
      /\ emitted[i].streamName = Cfg(acts[emitted[i].act].config).streamName

C24_Witness ==
  \E a \in Activations :
    /\ Len(sent[a]) = 2
    /\ \E i \in 1..Len(emitted) : emitted[i] = CompleteEv("issues", a, 2, 200)

\* C29: between handlers, an interval timer is live exactly for the names of
\* the registry, and it is the handle the name's registry entry stores: no
\* timer is live that no stop can clear.
C29_TimerIffRegistered ==
  /\ DOMAIN intervals
       = {activeStreams[n].intervalId : n \in DOMAIN activeStreams}
  /\ \A n \in DOMAIN activeStreams :
       LET id == activeStreams[n].intervalId IN
       /\ intervals[id].act = activeStreams[n].act
       /\ Cfg(acts[intervals[id].act].config).streamName = n
       /\ \A m \in DOMAIN activeStreams :
            activeStreams[m].intervalId = id => m = n

C29_Witness ==
  /\ op.kind = "start"
  /\ Len(acts) = 2
  /\ acts[1].replaced
  /\ DOMAIN intervals = {2}
  /\ DOMAIN activeStreams = {Cfg(acts[2].config).streamName}

C23_ErrorTickChangesNothing ==
  [][\A i \in 1..Len(tick') :
       "error" \in Effects(tick'[i]) =>
         LET a == tick'[i].act
             name == Cfg(acts'[a].config).streamName
         IN /\ tick'[i].evs = <<ErrorEv(name, a)>>
            /\ tick'[i].scheduled = 0
            /\ Cardinality({k \in 1..Len(emitted') :
                              emitted'[k].type = "error"}) = 1
            /\ Payloads(emitted', a) = 0
            /\ acts'[a].status = "RUNNING" =>
                 /\ name \in DOMAIN activeStreams'
                 /\ activeStreams'[name].act = a
                 /\ a \in DOMAIN intervals'
            /\ IF op'.kind = "start"
               THEN /\ acts'[a].emissionCount = 0
                    /\ acts'[a].lastEmittedData = <<>>
                    /\ acts'[a].status = "RUNNING"
               ELSE /\ acts' = acts
                    /\ sent' = sent
                    /\ activeStreams' = activeStreams
                    /\ streamConfigs' = streamConfigs
                    /\ DOMAIN intervals' = DOMAIN intervals
                    /\ \A id \in DOMAIN intervals :
                         /\ intervals'[id].act = intervals[id].act
                         /\ intervals'[id].period = intervals[id].period
                    /\ \A k \in 1..Len(timeouts') :
                         \E j \in 1..Len(timeouts) : timeouts[j] = timeouts'[k]
    ]_vars

C23_Witness ==
  /\ op.kind = "interval"
  /\ Len(tick) = 1
  /\ Effects(tick[1]) = {"error"}
  /\ acts[tick[1].act].status = "RUNNING"
  /\ acts[tick[1].act].lastEmittedData # <<>>
  /\ tick[1].act \in DOMAIN intervals

\* C27: in every state an activation's emissionCount is the number of payload
\* events it has broadcast; a payload that has been generated and stored as
\* the last payload is not counted before its broadcast has run.
C27_CountIsBroadcastCount ==
  /\ \A a \in Activations : acts[a].emissionCount = Len(sent[a])
  /\ \A i \in 1..Len(tick) :
       "fresh" \in Effects(tick[i]) =>
         /\ acts[tick[i].act].lastEmittedData # <<>>
         /\ Payloads(emitted, tick[i].act) = 0

C27_Witness ==
  \E a \in Activations :
    /\ op.kind = "interval"
    /\ op.act = a
    /\ "fresh" \in Effects(tick[1])
    /\ acts[a].emissionCount = 0
    /\ Cardinality({j \in 1..Len(timeouts) :
                      timeouts[j].kind = "broadcast" /\ timeouts[j].act = a}) = 2

\* C30: a duplicate replays a payload its activation has broadcast before: no
\* emitData call broadcasts a duplicate of a payload whose own delayed
\* broadcast has not run yet.
C30_DuplicateAfterOriginal ==
  \A i \in 1..Len(tick) :
    "duplicate" \in Effects(tick[i]) =>
      LET a == tick[i].act IN
      \E j \in 1..(Len(sent[a]) - 1) : sent[a][j] = sent[a][Len(sent[a])]

\* The name of the stream of activation a.
NameOf(a) == Cfg(acts[a].config).streamName

C25_ConfigsOnConnect ==
  [][op'.kind \in {"connect", "get-configs"} =>
       /\ emitted' = <<ConfigsEv(GetConfigs)>>
       /\ emitted'[1].to = "socket"
       /\ DOMAIN emitted'[1].configs = DOMAIN activeStreams
       /\ sent' = sent
       /\ UNCHANGED <<activeStreams, streamConfigs, intervals, timeouts, acts>>
    ]_vars

C25_Witness ==
  /\ op.kind = "connect"
  /\ emitted = <<ConfigsEv(GetConfigs)>>
  /\ DOMAIN GetConfigs = {"books", "issues"}
  /\ \E a \in Activations : Len(sent[a]) = 2

\* Activation a has ended: a complete event was broadcast for it, its name is
\* out of the registry and the configs, and its interval timer is cleared.
Ended(a) ==
  /\ Len(acts) >= a
  /\ acts[a].completes >= 1
  /\ acts[a].status = "COMPLETE"
  /\ NameOf(a) \notin DOMAIN activeStreams
  /\ NameOf(a) \notin DOMAIN streamConfigs
  /\ a \notin DOMAIN intervals

C31_FreshIdsDistinct ==
  \A j \in 1..Len(timeouts), k \in 1..Len(timeouts) :
    (/\ j < k
     /\ timeouts[j].kind = "broadcast"
     /\ timeouts[k].kind = "broadcast"
     /\ timeouts[j].act = timeouts[k].act) =>
      timeouts[j].data.id # timeouts[k].data.id

\* Positions in the events of the last handler of the events of activation a.
EventsOf(evs, a) ==
  {i \in 1..Len(evs) : evs[i].type \in {"payload", "error", "complete"}
                         /\ evs[i].act = a}

\* C32: in a start over the socket, stream-started is sent before any payload,
\* error or complete event of the new activation, and the stream-stopped of
\* a stream the start replaces precedes every event of the new activation.
C32_StartedComesFirst ==
  (op.kind = "start" /\ op.via = "socket") =>
    \A i \in EventsOf(emitted, op.act) :
      /\ \E k \in 1..Len(emitted) :
           emitted[k].type = "stream-started" /\ k < i
      /\ \A k \in 1..Len(emitted) :
           emitted[k].type = "stream-stopped" => k < i

\* The stream names of the sub-configs of a preset.
PresetNames(presetName) ==
  {Cfg(presetValues(presetName)[k]).streamName :
     k \in 1..Len(presetValues(presetName))}

\* The broadcasts of an activation that are still pending.
PendingOf(tasks, a) ==
  SelectSeq(tasks, LAMBDA task : task.kind = "broadcast" /\ task.act = a)

\* C33: a preset that is started touches only the stream names of its
\* sub-configs: a registered stream of any other name keeps its registry
\* entry, its config, its timer, its counters and its pending broadcasts, and
\* nothing is emitted for it; a registered stream of a listed name is
\* replaced by a new activation.
C33_PresetTouchesListedOnly ==
  [][(op'.kind = "preset" /\ response' = <<[status |-> 200]>>) =>
       /\ \A name \in DOMAIN activeStreams \ PresetNames(op'.name) :
            LET a == activeStreams[name].act
            IN /\ name \in DOMAIN activeStreams'
               /\ activeStreams'[name] = activeStreams[name]
               /\ name \in DOMAIN streamConfigs'
               /\ streamConfigs'[name] = streamConfigs[name]
               /\ activeStreams[name].intervalId \in DOMAIN intervals'
               /\ intervals'[activeStreams[name].intervalId] =
                    intervals[activeStreams[name].intervalId]
               /\ acts'[a] = acts[a]
               /\ sent'[a] = sent[a]
               /\ PendingOf(timeouts', a) = PendingOf(timeouts, a)
               /\ \A i \in 1..Len(emitted') :
                    emitted'[i].streamName # name
       /\ \A name \in DOMAIN activeStreams \cap PresetNames(op'.name) :
            LET a == activeStreams[name].act
            IN /\ activeStreams'[name].act > Len(acts)
               /\ acts'[a].replaced
               /\ acts'[a].status # "RUNNING"
               /\ activeStreams[name].intervalId \notin DOMAIN intervals'
       ]_vars

\* 'errorHandling' was started while 'issues' ran: 'issues' still runs as the
\* activation it was, next to the new 'books'.
C33_Witness ==
  /\ op.kind = "preset"
  /\ op.name = "errorHandling"
  /\ DOMAIN activeStreams = {"books", "issues"}
  /\ activeStreams["issues"].act = 1
  /\ activeStreams["books"].act = 2
  /\ acts[1].status = "RUNNING"

\* 'errorHandling' was started while 'books' ran: 'books' was replaced.
C33_WitnessReplaced ==
  /\ op.kind = "preset"
  /\ op.name = "errorHandling"
  /\ Len(acts) = 2
  /\ acts[1].replaced
  /\ activeStreams["books"].act = 2

\* The elements of a sequence.
Range(seq) == {seq[k] : k \in 1..Len(seq)}

\* C34: the catalog GET /presets answers with and the catalog POST
\* /presets/:presetName starts from agree: the same 8 preset names, under
\* each name the same sub-stream keys with equal configs, and a start of a
\* listed preset is answered with 200 and starts exactly the listed configs.
C34_CatalogsAgree ==
  [][/\ op'.kind = "get-presets" =>
          /\ response'[1].status = 200
          /\ DOMAIN response'[1].presets = DOMAIN presets
          /\ Cardinality(DOMAIN response'[1].presets) = 8
          /\ \A p \in DOMAIN response'[1].presets :
               LET listed == response'[1].presets[p]
               IN /\ subStreamKeys(listed) = Range(presetKeys[p])
                  /\ Len(presetKeys[p]) = Len(presets[p])
                  /\ Cardinality(subStreamKeys(listed)) = Len(presets[p])
                  /\ \A k \in 1..Len(presetKeys[p]) :
                       listed[presetKeys[p][k]] = presets[p][k]
     /\ (op'.kind = "preset" /\ op'.name \in DOMAIN listedPresets) =>
          LET listed == listedPresets[op'.name]
          IN /\ response' = <<[status |-> 200]>>
             /\ Len(acts') = Len(acts) + Cardinality(subStreamKeys(listed))
             /\ {acts'[a].config : a \in (Len(acts) + 1)..Len(acts')} =
                  {listed[key] : key \in subStreamKeys(listed)}
             /\ \A key \in subStreamKeys(listed) :
                  /\ listed[key].streamName \in DOMAIN activeStreams'
                  /\ activeStreams'[listed[key].streamName].config = listed[key]
     ]_vars

\* The catalog was listed and then one of its two-stream presets was started:
\* both listed configs are registered.
C34_Witness ==
  /\ op.kind = "preset"
  /\ op.name = "switching"
  /\ DOMAIN activeStreams = {"books", "issues"}
  /\ activeStreams["books"].config = listedPresets["switching"].books
  /\ activeStreams["issues"].config = listedPresets["switching"].issues

\* C35: the generator is selected by the stream's name alone.  A fresh
\* payload of the stream named 'books' is a book record with id 1000 +
\* emissionCount at generation time; a fresh payload of a stream of any other
\* name is an issue record with id 5000 + emissionCount at generation time,
\* whose dueDate is non-null exactly when its issueType is 'borrowed' and
\* whose fine is positive exactly when its issueType is 'overdue'.
C35_GeneratorByName ==
  /\ \A i \in 1..Len(tick) :
       "fresh" \in Effects(tick[i]) =>
         LET c == acts[tick[i].act]
             data == timeouts[Len(timeouts)].data
         IN /\ c.lastEmittedData = <<data>>
            /\ IF Cfg(c.config).streamName = "books"
               THEN data.kind = "book" /\ data.id = 1000 + c.emissionCount
               ELSE data.kind = "issue" /\ data.id = 5000 + c.emissionCount
  /\ op.kind = "generate" =>
       LET data == response[1].data
           index == response[1].index
       IN IF op.name = "books"
          THEN data.kind = "book" /\ data.id = 1000 + index
          ELSE /\ data.kind = "issue"
               /\ data.id = 5000 + index
               /\ data.issueType \in Range(issueTypes)
               /\ (data.dueDate # <<>>) <=> (data.issueType = "borrowed")
               /\ (data.fine > 0) <=> (data.issueType = "overdue")

\* The stream 'custom' has generated a fresh payload when its count was 1:
\* an issue record with id 5001.
C35_Witness ==
  /\ Len(tick) = 1
  /\ "fresh" \in Effects(tick[1])
  /\ Cfg(acts[tick[1].act].config).streamName = "custom"
  /\ acts[tick[1].act].emissionCount = 1
  /\ timeouts[Len(timeouts)].data = [kind |-> "issue", id |-> 5001]

\* The generator has returned an overdue issue with a fine for a name that
\* is neither 'books' nor 'issues'.
C35_WitnessOverdue ==
  /\ op.kind = "generate"
  /\ op.name = "custom"
  /\ response[1].data.issueType = "overdue"
  /\ response[1].data.fine = 54
  /\ response[1].data.dueDate = <<>>

====
